---- MODULE Spec2Model ----
(***************************************************************************)
(* Pyramid quality metrics of VERDICT (V_PyramidMetric.cpp) and the vector *)
(* arithmetic they use (VerdictVector.hpp).                                *)
(*                                                                         *)
(* Numbers.  The code computes in double.  The model computes with exact   *)
(* real numbers, not with IEEE rounding:                                   *)
(*   - a "Q2" number is (a + b*sqrt(2))/d with integers a, b and d > 0,    *)
(*     kept in lowest terms; coordinates, sums, products, dot and cross    *)
(*     products and divisions by 4.0 and 6.0 stay in this field;           *)
(*   - a "real" is num/sqrt(rad) with Q2 numbers num and rad >= 0: this is *)
(*     what sqrt() and the divisions by lengths produce.  rad = 0 is the   *)
(*     result of a division by zero: 0/0 is NaN, x/0 is +-infinity.        *)
(* The arithmetic is written as functions, f[x, y], so that an argument is *)
(* evaluated once, when the function is applied.                           *)
(***************************************************************************)
EXTENDS Integers, Sequences, FiniteSets, TLC

\* --------------------------------------------------------------- Q2 numbers

Q2 == [a : Int, b : Int, d : Int]

Gcd[m \in Nat, n \in Nat] == IF n = 0 THEN m ELSE Gcd[n, m % n]

Abs[n \in Int] == IF n < 0 THEN -n ELSE n

\* (a + b*sqrt(2))/d in lowest terms, d > 0.
Q[a \in Int, b \in Int, d \in Int] ==
  IF d = 1 THEN [a |-> a, b |-> b, d |-> 1]
  ELSE LET s == IF d < 0 THEN -1 ELSE 1
           g == Gcd[Gcd[Abs[a], Abs[b]], Abs[d]]
       IN  [a |-> s * (a \div g), b |-> s * (b \div g), d |-> s * (d \div g)]

QInt(n) == [a |-> n, b |-> 0, d |-> 1]
QZero == QInt(0)
QOne == QInt(1)

QAdd[x \in Q2, y \in Q2] ==
  IF x.d = y.d THEN Q[x.a + y.a, x.b + y.b, x.d]
  ELSE Q[x.a * y.d + y.a * x.d, x.b * y.d + y.b * x.d, x.d * y.d]

QNeg[x \in Q2] == [a |-> -x.a, b |-> -x.b, d |-> x.d]

QSub[x \in Q2, y \in Q2] == QAdd[x, QNeg[y]]

QMul[x \in Q2, y \in Q2] ==
  Q[x.a * y.a + 2 * x.b * y.b, x.a * y.b + x.b * y.a, x.d * y.d]

\* x / n for an integer n > 0 (the code's divisions by 4.0 and 6.0).
QDivInt[x \in Q2, n \in Int] == Q[x.a, x.b, x.d * n]

\* The sign of a + b*sqrt(2): sqrt(2) is irrational, so a*a = 2*b*b only at 0.
QSign[x \in Q2] ==
  IF x.a >= 0 /\ x.b >= 0 THEN (IF x.a = 0 /\ x.b = 0 THEN 0 ELSE 1)
  ELSE IF x.a <= 0 /\ x.b <= 0 THEN -1
  ELSE IF x.a > 0 THEN (IF x.a * x.a > 2 * x.b * x.b THEN 1 ELSE -1)
  ELSE (IF 2 * x.b * x.b > x.a * x.a THEN 1 ELSE -1)

QLess[x \in Q2, y \in Q2] == QSign[QSub[x, y]] < 0

\* x / y for y # 0: 1/(a + b*sqrt(2)) = (a - b*sqrt(2))/(a*a - 2*b*b).
QDiv[x \in Q2, y \in Q2] ==
  QMul[x, Q[y.a * y.d, -(y.b * y.d), y.a * y.a - 2 * y.b * y.b]]

\* ------------------------------------------------------------------- reals

Real == [num : Q2, rad : Q2]

\* num/sqrt(rad); every real with num = 0 and rad # 0 is written RZero.
R[num \in Q2, rad \in Q2] ==
  IF QSign[rad] = 0 THEN [num |-> QInt(QSign[num]), rad |-> QZero]
  ELSE IF QSign[num] = 0 THEN [num |-> QZero, rad |-> QOne]
  ELSE [num |-> num, rad |-> rad]

RQ(q) == [num |-> q, rad |-> QOne]
RZero == RQ(QZero)
ROne == RQ(QOne)
NaN == [num |-> QZero, rad |-> QZero]

IsNaN[x \in Real] == QSign[x.rad] = 0 /\ QSign[x.num] = 0
IsFinite[x \in Real] == QSign[x.rad] # 0

\* -1, 0 or 1 (an infinity has the sign of its numerator); NaN has none.
RSign[x \in Real] == QSign[x.num]

\* The double comparison x < y: false when either side is NaN.
RLess[x \in Real, y \in Real] ==
  IF IsNaN[x] \/ IsNaN[y] THEN FALSE
  ELSE IF ~IsFinite[x] THEN RSign[x] < 0 /\ (IsFinite[y] \/ RSign[y] > 0)
  ELSE IF ~IsFinite[y] THEN RSign[y] > 0
  ELSE IF RSign[x] # RSign[y] THEN RSign[x] < RSign[y]
  ELSE IF RSign[x] = 0 THEN FALSE
  ELSE IF RSign[x] > 0
  THEN QLess[QMul[QMul[x.num, x.num], y.rad], QMul[QMul[y.num, y.num], x.rad]]
  ELSE QLess[QMul[QMul[y.num, y.num], x.rad], QMul[QMul[x.num, x.num], y.rad]]

\* The double comparison x == y: false when either side is NaN.
REq[x \in Real, y \in Real] ==
  /\ ~IsNaN[x] /\ ~IsNaN[y]
  /\ ~RLess[x, y] /\ ~RLess[y, x]

\* The double comparison x <= y.
RLeq[x \in Real, y \in Real] == RLess[x, y] \/ REq[x, y]

RMul[x \in Real, y \in Real] ==
  IF IsNaN[x] \/ IsNaN[y] THEN NaN
  ELSE IF (~IsFinite[x] /\ RSign[y] = 0) \/ (~IsFinite[y] /\ RSign[x] = 0) THEN NaN
  ELSE R[QMul[x.num, y.num], QMul[x.rad, y.rad]]

\* x / y in double: 0/0 is NaN, x/0 is an infinity.
RDiv[x \in Real, y \in Real] ==
  IF IsNaN[x] \/ IsNaN[y] THEN NaN
  ELSE IF ~IsFinite[y] THEN (IF IsFinite[x] THEN RZero ELSE NaN)
  ELSE IF RSign[y] = 0 THEN [num |-> QInt(RSign[x]), rad |-> QZero]
  ELSE IF ~IsFinite[x] THEN [num |-> QInt(RSign[x] * RSign[y]), rad |-> QZero]
  ELSE R[QDiv[QMul[x.num, y.rad], y.num], QMul[x.rad, y.rad]]

\* sqrt(q) for a Q2 number q >= 0: q/sqrt(q).
sqrt[q \in Q2] == IF QSign[q] = 0 THEN RZero ELSE R[q, q]

\* verdict_defines.hpp: VERDICT_MIN(a,b) is ((a) < (b) ? (a) : (b)) and
\* VERDICT_MAX(a,b) is ((a) > (b) ? (a) : (b)).
VERDICT_MIN[a \in Real, b \in Real] == IF RLess[a, b] THEN a ELSE b
VERDICT_MAX[a \in Real, b \in Real] == IF RLess[b, a] THEN a ELSE b

\* VERDICT_DBL_MAX, the largest double: above every finite value of the model.
VERDICT_DBL_MAX == [num |-> QOne, rad |-> QZero]

\* x < VERDICT_DBL_MIN, the smallest positive double: every positive value the
\* model's bounded inputs produce is far above it, so only x <= 0 is below.
BelowDblMin[x \in Real] == RLess[x, RZero] \/ REq[x, RZero]

\* ------------------------------------------------------------ VerdictVector

Vector == [x : Q2, y : Q2, z : Q2]

Vec(xv, yv, zv) == [x |-> xv, y |-> yv, z |-> zv]

\* VerdictVector(const double xyz[3])
VecOf(xyz) == Vec(xyz[0], xyz[1], xyz[2])

\* operator+, operator-
VAdd[v1 \in Vector, v2 \in Vector] ==
  Vec(QAdd[v1.x, v2.x], QAdd[v1.y, v2.y], QAdd[v1.z, v2.z])
VSub[v1 \in Vector, v2 \in Vector] ==
  Vec(QSub[v1.x, v2.x], QSub[v1.y, v2.y], QSub[v1.z, v2.z])

\* operator/ by a positive whole scalar
VDivInt[v \in Vector, n \in Int] ==
  Vec(QDivInt[v.x, n], QDivInt[v.y, n], QDivInt[v.z, n])

\* operator* between vectors: the cross product (operator*=).
Cross[v1 \in Vector, v2 \in Vector] ==
  Vec(QSub[QMul[v1.y, v2.z], QMul[v1.z, v2.y]],
      QSub[QMul[v1.z, v2.x], QMul[v1.x, v2.z]],
      QSub[QMul[v1.x, v2.y], QMul[v1.y, v2.x]])

\* operator%: the dot product.
Dot[v1 \in Vector, v2 \in Vector] ==
  QAdd[QAdd[QMul[v1.x, v2.x], QMul[v1.y, v2.y]], QMul[v1.z, v2.z]]

length_squared[v \in Vector] ==
  QAdd[QAdd[QMul[v.x, v.x], QMul[v.y, v.y]], QMul[v.z, v.z]]

length[v \in Vector] == sqrt[length_squared[v]]

\* side.set(coordinates[i][k] - coordinates[j][k], k = 0, 1, 2)
Side(coordinates, i, j) ==
  Vec(QSub[coordinates[i][0], coordinates[j][0]],
      QSub[coordinates[i][1], coordinates[j][1]],
      QSub[coordinates[i][2], coordinates[j][2]])

\* ------------------------------------------------------ decomposition builders

\* A vertex array: vertex index 0..n-1 -> coordinate index 0..2 -> Q2.
Pt(x, y, z) == [k \in 0..2 |-> IF k = 0 THEN x ELSE IF k = 1 THEN y ELSE z]
Arr4(p0, p1, p2, p3) ==
  [i \in 0..3 |-> IF i = 0 THEN p0 ELSE IF i = 1 THEN p1 ELSE IF i = 2 THEN p2 ELSE p3]
Arr3(p0, p1, p2) ==
  [i \in 0..2 |-> IF i = 0 THEN p0 ELSE IF i = 1 THEN p1 ELSE p2]

\* The four tetrahedra of the Jacobian metrics, as the code copies them.
v_make_pyramid_tets(coordinates) ==
  [tet1 |-> Arr4(coordinates[0], coordinates[1], coordinates[2], coordinates[4]),
   tet2 |-> Arr4(coordinates[0], coordinates[2], coordinates[3], coordinates[4]),
   tet3 |-> Arr4(coordinates[0], coordinates[1], coordinates[3], coordinates[4]),
   tet4 |-> Arr4(coordinates[1], coordinates[2], coordinates[3], coordinates[4])]

\* The base quadrilateral and the four side triangles.
v_make_pyramid_faces(coordinates) ==
  [base |-> Arr4(coordinates[0], coordinates[1], coordinates[2], coordinates[3]),
   tri1 |-> Arr3(coordinates[0], coordinates[1], coordinates[4]),
   tri2 |-> Arr3(coordinates[1], coordinates[2], coordinates[4]),
   tri3 |-> Arr3(coordinates[2], coordinates[3], coordinates[4]),
   tri4 |-> Arr3(coordinates[3], coordinates[0], coordinates[4])]

\* The eight edge vectors edges[0..7].
v_make_pyramid_edges(coordinates) ==
  [e \in 0..7 |->
     IF e = 0 THEN Side(coordinates, 1, 0)
     ELSE IF e = 1 THEN Side(coordinates, 2, 1)
     ELSE IF e = 2 THEN Side(coordinates, 3, 2)
     ELSE IF e = 3 THEN Side(coordinates, 0, 3)
     ELSE IF e = 4 THEN Side(coordinates, 4, 0)
     ELSE IF e = 5 THEN Side(coordinates, 4, 1)
     ELSE IF e = 6 THEN Side(coordinates, 4, 2)
     ELSE Side(coordinates, 4, 3)]

\* ------------------------------------------------- collaborators (not in src)

\* Vertex arrays of 4 and 5 points.
Point == [0..2 -> Q2]
Array4 == [0..3 -> Point]
Array5 == [0..4 -> Point]

\* v_tet_jacobian(4, tet): the scalar triple product
\* (p3 - p0) . ((p1 - p0) x (p2 - p0)) of the four points.
v_tet_jacobian[tet \in Array4] ==
  RQ(Dot[Side(tet, 3, 0), Cross[Side(tet, 1, 0), Side(tet, 2, 0)]])

\* A quadrilateral is degenerate when the two edges that meet at one of its
\* corners span no area (one of them has no length, or they are parallel).
QuadDegenerate[base \in Array4] ==
  \E i \in 0..3 :
    QSign[length_squared[Cross[Side(base, (i + 1) % 4, i),
                               Side(base, (i + 3) % 4, i)]]] = 0

\* v_quad_shape(4, base): a score in a bounded range, 0 for a degenerate
\* quadrilateral.  For any other base the score is the collaborator's answer,
\* which the caller of the model supplies as quad_score.
v_quad_shape(base, quad_score) ==
  IF QuadDegenerate[base] THEN RZero ELSE quad_score

\* ------------------------------------------------------------------ metrics

\* Faulty variant: the vertex count is not tested.
v_pyramid_volume_no_count_check(num_nodes, coordinates) ==
  RQ(QAdd[QDivInt[Dot[Side(coordinates, 4, 0),
                      Cross[Side(coordinates, 1, 0), Side(coordinates, 3, 0)]], 6],
          QDivInt[Dot[Side(coordinates, 4, 2),
                      Cross[Side(coordinates, 3, 2), Side(coordinates, 1, 2)]], 6]])

\* Faulty variant: the second tetrahedron's volume is assigned, not added.
v_pyramid_volume_overwrite(num_nodes, coordinates) ==
  IF num_nodes = 5
  THEN RQ(QDivInt[Dot[Side(coordinates, 4, 2),
                      Cross[Side(coordinates, 3, 2), Side(coordinates, 1, 2)]], 6])
  ELSE RZero

\* Faulty variant: side1 of the first tetrahedron runs to vertex 2, not vertex 1.
v_pyramid_volume_wrong_corner(num_nodes, coordinates) ==
  IF num_nodes = 5
  THEN RQ(QAdd[QDivInt[Dot[Side(coordinates, 4, 0),
                           Cross[Side(coordinates, 2, 0), Side(coordinates, 3, 0)]], 6],
               QDivInt[Dot[Side(coordinates, 4, 2),
                           Cross[Side(coordinates, 3, 2), Side(coordinates, 1, 2)]], 6]])
  ELSE RZero

\* Faulty variant: side3 of the first tetrahedron is vertex 4 itself, vertex 0
\* is not subtracted.
v_pyramid_volume_apex_not_relative(num_nodes, coordinates) ==
  IF num_nodes = 5
  THEN RQ(QAdd[QDivInt[Dot[VecOf(coordinates[4]),
                           Cross[Side(coordinates, 1, 0), Side(coordinates, 3, 0)]], 6],
               QDivInt[Dot[Side(coordinates, 4, 2),
                           Cross[Side(coordinates, 3, 2), Side(coordinates, 1, 2)]], 6]])
  ELSE RZero

\* Faulty variant: side1 and side2 of the second tetrahedron are exchanged.
v_pyramid_volume_second_flipped(num_nodes, coordinates) ==
  IF num_nodes = 5
  THEN RQ(QAdd[QDivInt[Dot[Side(coordinates, 4, 0),
                           Cross[Side(coordinates, 1, 0), Side(coordinates, 3, 0)]], 6],
               QDivInt[Dot[Side(coordinates, 4, 2),
                           Cross[Side(coordinates, 1, 2), Side(coordinates, 3, 2)]], 6]])
  ELSE RZero

\* volume = (side3 % (side1 * side2))/6.0 for tet (0,1,3,4), then
\* volume += (side3 % (side1 * side2))/6.0 for tet (2,3,1,4).
v_pyramid_volume(num_nodes, coordinates) ==
  IF num_nodes = 5
  THEN LET first ==
             QDivInt[Dot[Side(coordinates, 4, 0),
                         Cross[Side(coordinates, 1, 0), Side(coordinates, 3, 0)]], 6]
           second ==
             QDivInt[Dot[Side(coordinates, 4, 2),
                         Cross[Side(coordinates, 3, 2), Side(coordinates, 1, 2)]], 6]
       IN  RQ(QAdd[first, second])
  ELSE RZero

\* double j1..j4, double length[8] and the like.
Real4 == [1..4 -> Real]
Real8 == [0..7 -> Real]

\* j1..j4: the Jacobians of tet1..tet4.
TetJacobians(coordinates) ==
  LET tets == v_make_pyramid_tets(coordinates)
  IN  [n \in 1..4 |->
         IF n = 1 THEN v_tet_jacobian[tets.tet1]
         ELSE IF n = 2 THEN v_tet_jacobian[tets.tet2]
         ELSE IF n = 3 THEN v_tet_jacobian[tets.tet3]
         ELSE v_tet_jacobian[tets.tet4]]

\* p1 = j1 < j2 ? j1 : j2, p2 = j3 < j4 ? j3 : j4, return p1 < p2 ? p1 : p2:
\* the conditional of VERDICT_MIN.
JacobianOf[j \in Real4] ==
  VERDICT_MIN[VERDICT_MIN[j[1], j[2]], VERDICT_MIN[j[3], j[4]]]

v_pyramid_jacobian(num_nodes, coordinates) == JacobianOf[TetJacobians(coordinates)]

\* The eight edge lengths length[0..7] of the scaled Jacobian.
EdgeLengths(coordinates) ==
  LET edges == v_make_pyramid_edges(coordinates)
  IN  [e \in 0..7 |-> length[edges[e]]]

\* Faulty variant: only the four base edges are tested.
AnyBaseLengthBelowDblMin(len) == \E e \in 0..3 : BelowDblMin[len[e]]

\* The degeneracy guard of the scaled Jacobian.
AnyLengthBelowDblMin(len) == \E e \in 0..7 : BelowDblMin[len[e]]

\* sqrt(2.0)/2
Sqrt2Halves == RDiv[sqrt[QInt(2)], RQ(QInt(2))]

\* Faulty variant: the second product takes edge 6 where the code takes edge 7.
ScaledJacobianDivisors_wrong_edge(len) ==
  <<RMul[RMul[RMul[len[0], len[1]], len[5]], Sqrt2Halves],
    RMul[RMul[RMul[len[2], len[3]], len[6]], Sqrt2Halves],
    RMul[RMul[RMul[len[0], len[3]], len[4]], Sqrt2Halves],
    RMul[RMul[RMul[len[1], len[2]], len[6]], Sqrt2Halves]>>

\* The products of three edge lengths and the factor that the four Jacobians
\* are divided by.
ScaledJacobianDivisors(len) ==
  <<RMul[RMul[RMul[len[0], len[1]], len[5]], Sqrt2Halves],
    RMul[RMul[RMul[len[2], len[3]], len[7]], Sqrt2Halves],
    RMul[RMul[RMul[len[0], len[3]], len[4]], Sqrt2Halves],
    RMul[RMul[RMul[len[1], len[2]], len[6]], Sqrt2Halves]>>

\* min_scaled_jac after the four VERDICT_MIN steps, from VERDICT_DBL_MAX.
MinScaledJacobian[j \in Real4, d \in Real4] ==
  VERDICT_MIN[RDiv[j[4], d[4]],
    VERDICT_MIN[RDiv[j[3], d[3]],
      VERDICT_MIN[RDiv[j[2], d[2]],
        VERDICT_MIN[RDiv[j[1], d[1]], VERDICT_DBL_MAX]]]]

\* Faulty variant: the length products are not multiplied by sqrt(2)/2.
ScaledJacobianBody_no_factor(j, len) ==
  IF AnyLengthBelowDblMin(len)
  THEN [ret |-> RZero, divisors |-> << >>]
  ELSE [ret |-> MinScaledJacobian[
                  j, <<RMul[RMul[len[0], len[1]], len[5]],
                       RMul[RMul[len[2], len[3]], len[7]],
                       RMul[RMul[len[0], len[3]], len[4]],
                       RMul[RMul[len[1], len[2]], len[6]]>>],
        divisors |-> <<RMul[RMul[len[0], len[1]], len[5]],
                       RMul[RMul[len[2], len[3]], len[7]],
                       RMul[RMul[len[0], len[3]], len[4]],
                       RMul[RMul[len[1], len[2]], len[6]]>>]

\* The body of v_pyramid_scaled_jacobian from the Jacobians j and lengths len.
ScaledJacobianBody(j, len) ==
  IF AnyLengthBelowDblMin(len)
  THEN [ret |-> RZero, divisors |-> << >>]
  ELSE [ret |-> MinScaledJacobian[j, ScaledJacobianDivisors(len)],
        divisors |-> ScaledJacobianDivisors(len)]

ScaledJacobianOf[j \in Real4, len \in Real8] ==
  ScaledJacobianBody(j, len)

\* The run of v_pyramid_scaled_jacobian: ret is the value returned, divisors
\* the values the code divided by, in order (none when the guard returns).
scaled_jacobian_run(num_nodes, coordinates) ==
  ScaledJacobianOf[TetJacobians(coordinates), EdgeLengths(coordinates)]

v_pyramid_scaled_jacobian(num_nodes, coordinates) ==
  scaled_jacobian_run(num_nodes, coordinates).ret

\* ------------------------------------------------------------ shape helpers

\* max = VERDICT_MIN(l0, l1), then VERDICT_MAX with l2..l7; returns sqrt(max).
LargestOf[l \in Real8] ==
  sqrt[VERDICT_MAX[VERDICT_MAX[VERDICT_MAX[VERDICT_MAX[VERDICT_MAX[VERDICT_MAX[
         VERDICT_MIN[l[0], l[1]], l[2]], l[3]], l[4]], l[5]], l[6]], l[7]].num]

v_largest_pyramid_edge(coordinates) ==
  LET edges == v_make_pyramid_edges(coordinates)
  IN  LargestOf[[e \in 0..7 |-> RQ(length_squared[edges[e]])]]

\* distance = (pq % normal)/normal_length and cos_angle = distance/pq.length();
\* divisors are the two values divided by.
DistanceOf[pq \in Vector, normal \in Vector] ==
  [distance |-> RDiv[RQ(Dot[pq, normal]), length[normal]],
   cos_angle |-> RDiv[RDiv[RQ(Dot[pq, normal]), length[normal]], length[pq]],
   divisors |-> <<length[normal], length[pq]>>]

\* Faulty variant: the dot product is not divided by normal_length.
v_distance_point_to_pyramid_base_unnormalised(num_nodes, coordinates) ==
  LET a == VecOf(coordinates[0])
      b == VecOf(coordinates[1])
      c == VecOf(coordinates[2])
      d == VecOf(coordinates[3])
      peak == VecOf(coordinates[4])
      centroid == VDivInt[VAdd[VAdd[VAdd[a, b], c], d], 4]
      normal == Cross[VSub[b, a], VSub[d, a]]
      pq == VSub[peak, centroid]
  IN  [distance |-> RQ(Dot[pq, normal]),
       cos_angle |-> RDiv[RQ(Dot[pq, normal]), length[pq]],
       divisors |-> <<length[normal], length[pq]>>]

\* Returns the distance and, through the reference parameter, cos_angle.
v_distance_point_to_pyramid_base(num_nodes, coordinates) ==
  LET a == VecOf(coordinates[0])
      b == VecOf(coordinates[1])
      c == VecOf(coordinates[2])
      d == VecOf(coordinates[3])
      peak == VecOf(coordinates[4])
      centroid == VDivInt[VAdd[VAdd[VAdd[a, b], c], d], 4]
      t1 == VSub[b, a]
      t2 == VSub[d, a]
      normal == Cross[t1, t2]
      pq == VSub[peak, centroid]
  IN  DistanceOf[pq, normal]

DistanceResult == [distance : Real, cos_angle : Real, divisors : Seq(Real)]

\* The last step of v_pyramid_shape: the aspect-ratio penalty and the product.
ShapeProduct[s1 \in Real, dp \in DistanceResult, longest_edge \in Real] ==
  IF RLess[dp.distance, longest_edge]
  THEN [ret |-> RMul[RMul[s1, dp.cos_angle], RDiv[dp.distance, longest_edge]],
        divisors |-> dp.divisors \o <<longest_edge>>]
  ELSE [ret |-> RMul[RMul[s1, dp.cos_angle], RDiv[longest_edge, dp.distance]],
        divisors |-> dp.divisors \o <<dp.distance>>]

\* Faulty variant: the test of dist_to_base and cos_angle is left out.
ShapeAfterBase_no_guard(s1, dp, coordinates) ==
  ShapeProduct[s1, dp, RMul[v_largest_pyramid_edge(coordinates), Sqrt2Halves]]

\* v_pyramid_shape after the base-quad test, dp being the apex distance.
ShapeAfterBase(s1, dp, coordinates) ==
  IF RLeq[dp.distance, RZero] \/ RLeq[dp.cos_angle, RZero]
  THEN [ret |-> RZero, divisors |-> dp.divisors]
  ELSE ShapeProduct[s1, dp, RMul[v_largest_pyramid_edge(coordinates), Sqrt2Halves]]

ShapeAfterBaseOf[s1 \in Real, dp \in DistanceResult, coordinates \in Array5] ==
  ShapeAfterBase(s1, dp, coordinates)

\* v_pyramid_shape from the base-quad score s1 on.
ShapeBody(s1, num_nodes, coordinates) ==
  IF REq[s1, RZero]
  THEN [ret |-> RZero, divisors |-> << >>]
  ELSE ShapeAfterBaseOf[s1, v_distance_point_to_pyramid_base(num_nodes, coordinates),
                        coordinates]

ShapeBodyOf[s1 \in Real, num_nodes \in Int, coordinates \in Array5] ==
  ShapeBody(s1, num_nodes, coordinates)

\* The run of v_pyramid_shape; quad_score is the answer of v_quad_shape for a
\* base that is not degenerate.  divisors: the values the code divided by.
shape_run(num_nodes, coordinates, quad_score) ==
  ShapeBodyOf[v_quad_shape(v_make_pyramid_faces(coordinates).base, quad_score),
              num_nodes, coordinates]

v_pyramid_shape(num_nodes, coordinates, quad_score) ==
  shape_run(num_nodes, coordinates, quad_score).ret

\* v_pyramid_shape reaches line 237, where it reads SQRT2_HALVES.
ReachesLongestEdge(num_nodes, coordinates, quad_score) ==
  Len(shape_run(num_nodes, coordinates, quad_score).divisors) > 2

\* Lines 237-245 with the value of SQRT2_HALVES that the call read.
ShapeTailWith[s1 \in Real, dp \in DistanceResult, largest \in Real, factor \in Real] ==
  ShapeProduct[s1, dp, RMul[largest, factor]].ret

\* What v_pyramid_shape returns when it reads factor from SQRT2_HALVES.
shape_with_static(num_nodes, coordinates, quad_score, factor) ==
  IF ReachesLongestEdge(num_nodes, coordinates, quad_score)
  THEN ShapeTailWith[v_quad_shape(v_make_pyramid_faces(coordinates).base, quad_score),
                     v_distance_point_to_pyramid_base(num_nodes, coordinates),
                     v_largest_pyramid_edge(coordinates), factor]
  ELSE RZero

\* ---------------------------------------------------------------- dispatcher

\* The request flags of verdict.h: one bit each.
V_PYRAMID_VOLUME == 1
V_PYRAMID_JACOBIAN == 2
V_PYRAMID_SCALED_JACOBIAN == 4
V_PYRAMID_SHAPE == 8

\* The C operator & on non-negative integers.
RECURSIVE BitAnd(_, _)
BitAnd(a, b) ==
  IF a = 0 \/ b = 0 THEN 0
  ELSE (a % 2) * (b % 2) + 2 * BitAnd(a \div 2, b \div 2)

\* memset(metric_vals, 0, sizeof(PyramidMetricVals)): every field becomes 0.0.
memset_zero(metric_vals) == [f \in DOMAIN metric_vals |-> RZero]

\* Faulty variant: four independent tests, every requested metric is stored.
v_pyramid_quality_every_flag(num_nodes, coordinates, metrics_request_flag, metric_vals, quad_score) ==
  [volume |->
     IF BitAnd(metrics_request_flag, V_PYRAMID_VOLUME) # 0
     THEN v_pyramid_volume(num_nodes, coordinates) ELSE RZero,
   jacobian |->
     IF BitAnd(metrics_request_flag, V_PYRAMID_JACOBIAN) # 0
     THEN v_pyramid_jacobian(num_nodes, coordinates) ELSE RZero,
   scaled_jacobian |->
     IF BitAnd(metrics_request_flag, V_PYRAMID_SCALED_JACOBIAN) # 0
     THEN v_pyramid_scaled_jacobian(num_nodes, coordinates) ELSE RZero,
   shape |->
     IF BitAnd(metrics_request_flag, V_PYRAMID_SHAPE) # 0
     THEN v_pyramid_shape(num_nodes, coordinates, quad_score) ELSE RZero]

\* Faulty variant: the record is not cleared before the selected field is set.
v_pyramid_quality_no_memset(num_nodes, coordinates, metrics_request_flag, metric_vals, quad_score) ==
  IF BitAnd(metrics_request_flag, V_PYRAMID_VOLUME) # 0
  THEN [metric_vals EXCEPT !.volume = v_pyramid_volume(num_nodes, coordinates)]
  ELSE IF BitAnd(metrics_request_flag, V_PYRAMID_JACOBIAN) # 0
  THEN [metric_vals EXCEPT !.jacobian = v_pyramid_jacobian(num_nodes, coordinates)]
  ELSE IF BitAnd(metrics_request_flag, V_PYRAMID_SCALED_JACOBIAN) # 0
  THEN [metric_vals EXCEPT !.scaled_jacobian =
                             v_pyramid_scaled_jacobian(num_nodes, coordinates)]
  ELSE IF BitAnd(metrics_request_flag, V_PYRAMID_SHAPE) # 0
  THEN [metric_vals EXCEPT !.shape = v_pyramid_shape(num_nodes, coordinates, quad_score)]
  ELSE metric_vals

\* The record *metric_vals after the call.
v_pyramid_quality(num_nodes, coordinates, metrics_request_flag, metric_vals, quad_score) ==
  LET cleared == memset_zero(metric_vals)
  IN  IF BitAnd(metrics_request_flag, V_PYRAMID_VOLUME) # 0
      THEN [cleared EXCEPT !.volume = v_pyramid_volume(num_nodes, coordinates)]
      ELSE IF BitAnd(metrics_request_flag, V_PYRAMID_JACOBIAN) # 0
      THEN [cleared EXCEPT !.jacobian = v_pyramid_jacobian(num_nodes, coordinates)]
      ELSE IF BitAnd(metrics_request_flag, V_PYRAMID_SCALED_JACOBIAN) # 0
      THEN [cleared EXCEPT !.scaled_jacobian =
                             v_pyramid_scaled_jacobian(num_nodes, coordinates)]
      ELSE IF BitAnd(metrics_request_flag, V_PYRAMID_SHAPE) # 0
      THEN [cleared EXCEPT !.shape = v_pyramid_shape(num_nodes, coordinates, quad_score)]
      ELSE cleared

\* ------------------------------------------------------------------- bounds

\* A caller moves vertex coordinates by whole units, at most MaxMoves times.
MaxMoves == 1
\* Vertex counts a caller passes: 0..MaxNodes.
MaxNodes == 6
\* Request bitmasks a caller passes: 0..MaxFlag (bit 16 is no recognized flag).
MaxFlag == 31

NodeCounts == 0..MaxNodes
RequestFlags == 0..MaxFlag

\* Answers of the quadrilateral shape primitive for a base that is not degenerate.
QuadScores == {RZero, RQ(Q[1, 0, 2]), ROne}

\* ------------------------------------------------------------------ elements

Arr5(p0, p1, p2, p3, p4) ==
  [i \in 0..4 |-> IF i = 0 THEN p0 ELSE IF i = 1 THEN p1 ELSE IF i = 2 THEN p2
                  ELSE IF i = 3 THEN p3 ELSE p4]

IPt(x, y, z) == Pt(QInt(x), QInt(y), QInt(z))

\* 1/sqrt(2) = sqrt(2)/2, and 1/2.
InvSqrt2 == Q[0, 1, 2]
Half == Q[1, 0, 2]

\* The unit square base with the apex at height 1/sqrt(2) above its centre.
IdealPyramid ==
  Arr5(IPt(0, 0, 0), IPt(1, 0, 0), IPt(1, 1, 0), IPt(0, 1, 0), Pt(Half, Half, InvSqrt2))

\* The unit square base with the apex at height 1 above vertex 0.
CornerPyramid ==
  Arr5(IPt(0, 0, 0), IPt(1, 0, 0), IPt(1, 1, 0), IPt(0, 1, 0), IPt(0, 0, 1))

\* A planar base that is not convex (vertex 2 lies inside triangle 0,1,3), with
\* the apex at height 1 above vertex 2.
DartPyramid ==
  Arr5(IPt(0, 0, 0), IPt(3, 0, 0), IPt(1, 1, 0), IPt(0, 3, 0), IPt(1, 1, 1))

\* A base that is not planar (vertices 1 and 3 raised), under an apex above it.
TwistedPyramid ==
  Arr5(IPt(0, 0, 0), IPt(2, 0, 1), IPt(2, 2, 0), IPt(0, 2, 1), IPt(1, 1, 3))

Seeds == {IdealPyramid, CornerPyramid, DartPyramid, TwistedPyramid}

\* What a result record may hold before a call: zeros, or stale values.
ZeroVals ==
  [volume |-> RZero, jacobian |-> RZero, scaled_jacobian |-> RZero, shape |-> RZero]
StaleVals ==
  [volume |-> RQ(QInt(7)), jacobian |-> RQ(QInt(-3)), scaled_jacobian |-> ROne,
   shape |-> NaN]

\* ---------------------------------------------------------------- the state

VARIABLES
  num_nodes,     \* the vertex count the caller passes
  coordinates,   \* the caller's vertex array: 5 vertices of 3 coordinates
  moves,         \* how many times the caller has moved a vertex coordinate
  metric_vals,   \* the caller's PyramidMetricVals record
  call,          \* the last call made on this element, and what it returned
  build,         \* how the build initializes the static of v_pyramid_shape
  SQRT2_HALVES,  \* the storage of the function-local static of v_pyramid_shape
  workers        \* the parallel workers: each one's element, record and call

vars == <<num_nodes, coordinates, moves, metric_vals, call, build, SQRT2_HALVES, workers>>

\* The static as a single caller finds it: holding sqrt(2.0)/2.0 from the first
\* use on.
StaticInitialized == [guard |-> TRUE, value |-> Sqrt2Halves]

\* One caller, no parallel workers.
SingleCaller ==
  /\ build = "constant"
  /\ SQRT2_HALVES = StaticInitialized
  /\ workers = << >>

\* No call has been made on the element yet.
NoCall ==
  [fn |-> "none", flag |-> 0, quad_score |-> RZero, ret |-> RZero, divisors |-> << >>,
   reused |-> FALSE]

Init ==
  /\ num_nodes = 5
  /\ coordinates \in Seeds
  /\ moves = 0
  /\ metric_vals = ZeroVals
  /\ call = NoCall
  /\ SingleCaller

\* The caller moves coordinate k of vertex i by one unit.
MoveVertex(i, k, delta) ==
  /\ call = NoCall
  /\ moves < MaxMoves
  /\ moves' = moves + 1
  /\ coordinates' = [coordinates EXCEPT ![i][k] = QAdd[@, QInt(delta)]]
  /\ call' = NoCall
  /\ UNCHANGED <<num_nodes, metric_vals, build, SQRT2_HALVES, workers>>

CallVolume ==
  /\ call = NoCall
  /\ call' = [NoCall EXCEPT !.fn = "volume",
                            !.ret = v_pyramid_volume(num_nodes, coordinates)]
  /\ UNCHANGED <<num_nodes, coordinates, moves, metric_vals, build, SQRT2_HALVES, workers>>

CallJacobian ==
  /\ call = NoCall
  /\ call' = [NoCall EXCEPT !.fn = "jacobian",
                            !.ret = v_pyramid_jacobian(num_nodes, coordinates)]
  /\ UNCHANGED <<num_nodes, coordinates, moves, metric_vals, build, SQRT2_HALVES, workers>>

CallScaledJacobian ==
  /\ call = NoCall
  /\ LET run == scaled_jacobian_run(num_nodes, coordinates)
     IN  call' = [NoCall EXCEPT !.fn = "scaled_jacobian",
                                !.ret = run.ret, !.divisors = run.divisors]
  /\ UNCHANGED <<num_nodes, coordinates, moves, metric_vals, build, SQRT2_HALVES, workers>>

CallShape(quad_score) ==
  /\ call = NoCall
  /\ LET run == shape_run(num_nodes, coordinates, quad_score)
     IN  call' = [NoCall EXCEPT !.fn = "shape", !.quad_score = quad_score,
                                !.ret = run.ret, !.divisors = run.divisors]
  /\ UNCHANGED <<num_nodes, coordinates, moves, metric_vals, build, SQRT2_HALVES, workers>>

\* v_pyramid_shape's helper, run on the element by itself.
CallLargestEdge ==
  /\ call = NoCall
  /\ call' = [NoCall EXCEPT !.fn = "largest_edge",
                            !.ret = v_largest_pyramid_edge(coordinates)]
  /\ UNCHANGED <<num_nodes, coordinates, moves, metric_vals, build, SQRT2_HALVES, workers>>

\* The caller has read what the call returned.
Return ==
  /\ call # NoCall
  /\ call' = NoCall
  /\ UNCHANGED <<num_nodes, coordinates, moves, metric_vals, build, SQRT2_HALVES, workers>>

\* The four metric functions called directly on elements near the seeds.
Next ==
  \/ Return
  \/ \E i \in 0..4, k \in 0..2, delta \in {-1, 1} : MoveVertex(i, k, delta)
  \/ CallVolume
  \/ CallJacobian
  \/ CallScaledJacobian
  \/ \E quad_score \in QuadScores : CallShape(quad_score)
  \/ CallLargestEdge

Spec == Init /\ [][Next]_vars

\* --------------------------------------------------- the dispatcher's callers

InitDispatch ==
  /\ num_nodes \in NodeCounts
  /\ coordinates \in Seeds
  /\ moves = 0
  /\ metric_vals \in {ZeroVals, StaleVals}
  /\ call = NoCall
  /\ SingleCaller

\* v_pyramid_quality(num_nodes, coordinates, flag, &metric_vals)
CallQuality(flag, quad_score) ==
  /\ call = NoCall
  /\ metric_vals' =
       v_pyramid_quality(num_nodes, coordinates, flag, metric_vals, quad_score)
  /\ call' = [NoCall EXCEPT !.fn = "quality", !.flag = flag,
                            !.quad_score = quad_score,
                            !.reused = (metric_vals # ZeroVals)]
  /\ UNCHANGED <<num_nodes, coordinates, moves, build, SQRT2_HALVES, workers>>

\* The caller turns to another element and count, keeping its result record.
NextElement(n, c) ==
  /\ call = NoCall
  /\ num_nodes' = n
  /\ coordinates' = c
  /\ UNCHANGED <<moves, metric_vals, call, build, SQRT2_HALVES, workers>>

NextDispatch ==
  \/ Return
  \/ \E flag \in RequestFlags, quad_score \in QuadScores : CallQuality(flag, quad_score)
  \/ CallVolume
  \/ \E n \in NodeCounts, c \in Seeds : NextElement(n, c)

SpecDispatch == InitDispatch /\ [][NextDispatch]_vars

\* --------------------------------------------------------- parallel workers

\* Independent workers, each with its own vertex array and result record.
Workers == {"w1", "w2"}

\* How `static double SQRT2_HALVES = sqrt(2.0)/2.0;` comes to hold its value:
\*   "constant"        the compiler evaluates the initializer, the static holds
\*                     the value when the program is loaded;
\*   "synchronized"    the first call that reaches the declaration initializes
\*                     it, and concurrent callers wait for it to finish;
\*   "unsynchronized"  the first calls that reach the declaration test a guard,
\*                     store the value and set the guard with plain memory
\*                     accesses: a data race, in which the two stores can
\*                     become visible to another caller in either order.
Builds == {"constant", "synchronized", "unsynchronized"}

\* The static's zero-initialized storage before its initializer has run.
StaticUninitialized == [guard |-> FALSE, value |-> RZero]

\* The request bitmasks the workers pass.
WorkerFlags ==
  {V_PYRAMID_VOLUME, V_PYRAMID_SCALED_JACOBIAN, V_PYRAMID_SHAPE,
   V_PYRAMID_VOLUME + V_PYRAMID_SHAPE}

\* The workers' elements: unit square bases, for which v_quad_shape answers 1.
WorkerElements == {IdealPyramid, CornerPyramid}

\* The functions a worker calls.
WorkerCalls == {"volume", "jacobian", "scaled_jacobian", "shape", "quality"}

\* A worker between calls.  quad_score: what v_quad_shape answers for the base
\* of its element; factor: the value of SQRT2_HALVES its call has read; shared:
\* the variables outliving the call, other than its array and its record, that
\* the call has read or written.
IdleWorker(c) ==
  [pc |-> "idle", fn |-> "none", flag |-> 0, coordinates |-> c, quad_score |-> ROne,
   metric_vals |-> ZeroVals, ret |-> RZero, factor |-> RZero, pending |-> {},
   shared |-> {}]

\* The call runs the body of v_pyramid_shape.
RunsShape(fn, flag) ==
  \/ fn = "shape"
  \/ /\ fn = "quality"
     /\ BitAnd(flag, V_PYRAMID_VOLUME) = 0
     /\ BitAnd(flag, V_PYRAMID_JACOBIAN) = 0
     /\ BitAnd(flag, V_PYRAMID_SCALED_JACOBIAN) = 0
     /\ BitAnd(flag, V_PYRAMID_SHAPE) # 0

InitWorkers ==
  /\ num_nodes = 5
  /\ coordinates = IdealPyramid
  /\ moves = 0
  /\ metric_vals = ZeroVals
  /\ call = NoCall
  /\ build \in Builds
  /\ SQRT2_HALVES = IF build = "constant" THEN StaticInitialized ELSE StaticUninitialized
  /\ workers \in [Workers -> {IdleWorker(c) : c \in WorkerElements}]

\* Worker w calls one of the four metric functions or v_pyramid_quality.  A call
\* that does not run v_pyramid_shape works on its arguments and locals only.
WorkerCall(w, fn, flag) ==
  /\ workers[w].pc = "idle"
  /\ fn = "quality" \/ flag = 0
  /\ workers' =
       [workers EXCEPT
          ![w].fn = fn,
          ![w].flag = flag,
          ![w].factor = RZero,
          ![w].shared = {},
          ![w].pc = IF RunsShape(fn, flag) THEN "declaration" ELSE "done",
          ![w].ret =
            IF fn = "volume" THEN v_pyramid_volume(num_nodes, workers[w].coordinates)
            ELSE IF fn = "jacobian"
            THEN v_pyramid_jacobian(num_nodes, workers[w].coordinates)
            ELSE IF fn = "scaled_jacobian"
            THEN v_pyramid_scaled_jacobian(num_nodes, workers[w].coordinates)
            ELSE RZero,
          ![w].metric_vals =
            IF fn = "quality" /\ ~RunsShape(fn, flag)
            THEN v_pyramid_quality(num_nodes, workers[w].coordinates, flag,
                                   workers[w].metric_vals, workers[w].quad_score)
            ELSE IF fn = "quality" THEN memset_zero(workers[w].metric_vals)
            ELSE workers[w].metric_vals]
  /\ UNCHANGED <<num_nodes, coordinates, moves, metric_vals, call, build, SQRT2_HALVES>>

\* Line 214: the declaration of the static.
PassDeclaration(w) ==
  /\ workers[w].pc = "declaration"
  /\ \/ /\ build = "constant"
        /\ workers' = [workers EXCEPT ![w].pc = "body"]
        /\ UNCHANGED SQRT2_HALVES
     \/ /\ build = "synchronized"
        /\ SQRT2_HALVES' = StaticInitialized
        /\ workers' = [workers EXCEPT ![w].pc = "body",
                                      ![w].shared = @ \cup {"SQRT2_HALVES"}]
     \/ /\ build = "unsynchronized"
        /\ workers' =
             [workers EXCEPT
                ![w].pc = IF SQRT2_HALVES.guard THEN "body" ELSE "initializer",
                ![w].pending = IF SQRT2_HALVES.guard THEN {} ELSE {"value", "guard"},
                ![w].shared = @ \cup {"SQRT2_HALVES"}]
        /\ UNCHANGED SQRT2_HALVES
  /\ UNCHANGED <<num_nodes, coordinates, moves, metric_vals, call, build>>

\* The unsynchronized initializer: one of its two stores becomes visible.
StoreStatic(w, store) ==
  /\ workers[w].pc = "initializer"
  /\ store \in workers[w].pending
  /\ SQRT2_HALVES' =
       IF store = "value" THEN [SQRT2_HALVES EXCEPT !.value = Sqrt2Halves]
       ELSE [SQRT2_HALVES EXCEPT !.guard = TRUE]
  /\ workers' =
       [workers EXCEPT
          ![w].pending = @ \ {store},
          ![w].pc = IF workers[w].pending = {store} THEN "body" ELSE "initializer"]
  /\ UNCHANGED <<num_nodes, coordinates, moves, metric_vals, call, build>>

\* Lines 216-245: the body of v_pyramid_shape; line 237 reads SQRT2_HALVES.
ShapeBodyStep(w) ==
  /\ workers[w].pc = "body"
  /\ LET reads == ReachesLongestEdge(num_nodes, workers[w].coordinates,
                                     workers[w].quad_score)
         shape == shape_with_static(num_nodes, workers[w].coordinates,
                                    workers[w].quad_score, SQRT2_HALVES.value)
     IN  workers' =
           [workers EXCEPT
              ![w].pc = "done",
              ![w].factor = IF reads THEN SQRT2_HALVES.value ELSE RZero,
              ![w].shared = IF reads THEN @ \cup {"SQRT2_HALVES"} ELSE @,
              ![w].ret = IF workers[w].fn = "shape" THEN shape ELSE RZero,
              ![w].metric_vals =
                IF workers[w].fn = "quality" THEN [@ EXCEPT !.shape = shape] ELSE @]
  /\ UNCHANGED <<num_nodes, coordinates, moves, metric_vals, call, build, SQRT2_HALVES>>

\* The worker has read the result; its array and its record stay its own.
WorkerReturn(w) ==
  /\ workers[w].pc = "done"
  /\ workers' = [workers EXCEPT ![w].pc = "idle", ![w].fn = "none", ![w].flag = 0,
                                ![w].ret = RZero, ![w].factor = RZero,
                                ![w].shared = {}]
  /\ UNCHANGED <<num_nodes, coordinates, moves, metric_vals, call, build, SQRT2_HALVES>>

NextWorkers ==
  \/ \E w \in Workers, fn \in WorkerCalls, flag \in WorkerFlags \cup {0} :
       WorkerCall(w, fn, flag)
  \/ \E w \in Workers : PassDeclaration(w)
  \/ \E w \in Workers, store \in {"value", "guard"} : StoreStatic(w, store)
  \/ \E w \in Workers : ShapeBodyStep(w)
  \/ \E w \in Workers : WorkerReturn(w)

SpecWorkers == InitWorkers /\ [][NextWorkers]_vars

\* ================================================================ properties

\* The bit of a request bitmask.
Has(flag, bit) == (flag \div bit) % 2 = 1

\* The field a request bitmask selects: the first recognized flag it holds.
Selected(flag) ==
  IF Has(flag, V_PYRAMID_VOLUME) THEN "volume"
  ELSE IF Has(flag, V_PYRAMID_JACOBIAN) THEN "jacobian"
  ELSE IF Has(flag, V_PYRAMID_SCALED_JACOBIAN) THEN "scaled_jacobian"
  ELSE IF Has(flag, V_PYRAMID_SHAPE) THEN "shape"
  ELSE "none"

Fields == {"volume", "jacobian", "scaled_jacobian", "shape"}

\* C1: for every request bitmask, v_pyramid_quality stores only the metric of
\* the first flag set in the order volume, Jacobian, scaled Jacobian, shape, and
\* the fields of all later flags stay 0 even when those flags are set too.
C1_FirstFlagOnly ==
  call.fn = "quality" =>
    /\ Selected(call.flag) = "volume" =>
         metric_vals =
           [ZeroVals EXCEPT !.volume = v_pyramid_volume(num_nodes, coordinates)]
    /\ Selected(call.flag) = "jacobian" =>
         metric_vals =
           [ZeroVals EXCEPT !.jacobian = v_pyramid_jacobian(num_nodes, coordinates)]
    /\ Selected(call.flag) = "scaled_jacobian" =>
         metric_vals =
           [ZeroVals EXCEPT !.scaled_jacobian =
                              v_pyramid_scaled_jacobian(num_nodes, coordinates)]
    /\ Selected(call.flag) = "shape" =>
         metric_vals =
           [ZeroVals EXCEPT !.shape =
                              v_pyramid_shape(num_nodes, coordinates, call.quad_score)]

\* A volume|shape request on an element whose shape is not 0: only the volume
\* field is populated.
C1_Witness ==
  /\ call.fn = "quality"
  /\ call.flag = V_PYRAMID_VOLUME + V_PYRAMID_SHAPE
  /\ num_nodes = 5
  /\ RSign[v_pyramid_shape(num_nodes, coordinates, call.quad_score)] = 1
  /\ RSign[metric_vals.volume] = 1
  /\ metric_vals.shape = RZero

\* C2: after any sequence of v_pyramid_quality calls that reuse one result
\* record, whatever it held before, every field other than the one the last
\* bitmask selects is 0, and all four are 0 when it holds no recognized flag.
C2_RecordReflectsLastCall ==
  call.fn = "quality" =>
    \A field \in Fields : field # Selected(call.flag) => metric_vals[field] = RZero

\* A call with no recognized flag on a record that was not zero before it.
C2_Witness ==
  /\ call.fn = "quality"
  /\ call.reused
  /\ Selected(call.flag) = "none"
  /\ call.flag # 0
  /\ metric_vals = ZeroVals

\* C3: v_pyramid_volume returns exactly 0 for every vertex count other than 5
\* and reads no coordinate then (it returns 0 with no coordinates to read); a
\* volume request through the dispatcher leaves the whole record at 0.
C3_VolumeNeedsFiveNodes ==
  num_nodes # 5 =>
    /\ call.fn = "volume" =>
         /\ call.ret = RZero
         /\ v_pyramid_volume(num_nodes, << >>) = RZero
    /\ call.fn = "quality" /\ Has(call.flag, V_PYRAMID_VOLUME) =>
         /\ metric_vals = ZeroVals
         /\ v_pyramid_quality(num_nodes, << >>, call.flag, metric_vals, call.quad_score)
              = ZeroVals

\* A volume request with 4 vertices on a record that held stale values.
C3_Witness ==
  /\ call.fn = "quality"
  /\ Has(call.flag, V_PYRAMID_VOLUME)
  /\ num_nodes = 4
  /\ call.reused
  /\ metric_vals = ZeroVals

\* C4 as stated: for the unit square base with the apex at (1/2, 1/2, 1/sqrt(2))
\* v_pyramid_volume returns 1/3.
C4_ScenarioVolumeIsOneThird ==
  call.fn = "volume" /\ coordinates = IdealPyramid =>
    REq[call.ret, RQ(Q[1, 0, 3])]

\* C4 amended: for that element v_pyramid_volume returns h/3 = sqrt(2)/6, the
\* base area 1 times the height h = 1/sqrt(2) over 3.
C4_ScenarioVolumeIsHeightOverThree ==
  call.fn = "volume" /\ coordinates = IdealPyramid =>
    /\ REq[call.ret, RQ(QDivInt[InvSqrt2, 3])]
    /\ call.ret = RQ(Q[0, 1, 6])

C4_Witness ==
  /\ call.fn = "volume"
  /\ coordinates = IdealPyramid
  /\ RLess[call.ret, RQ(Q[1, 0, 3])]

\* C5: for the right pyramid with a square base of unit edge and the apex at
\* height 1/sqrt(2) above the base centroid, v_pyramid_scaled_jacobian returns
\* 1.0, each of the four corner ratios j_i / (l_a l_b l_c sqrt(2)/2) being 1.
C5_IdealScaledJacobianIsOne ==
  call.fn = "scaled_jacobian" /\ coordinates = IdealPyramid =>
    /\ REq[call.ret, ROne]
    /\ Len(call.divisors) = 4
    /\ \A i \in 1..4 :
         REq[RDiv[TetJacobians(coordinates)[i], call.divisors[i]], ROne]

C5_Witness ==
  /\ call.fn = "scaled_jacobian"
  /\ coordinates = IdealPyramid
  /\ \A e \in 0..7 : REq[EdgeLengths(coordinates)[e], ROne]

\* The two ways of writing the base in reversed winding order, apex kept.
ReversedFromV0(c) == Arr5(c[0], c[3], c[2], c[1], c[4])
ReversedFromV3(c) == Arr5(c[3], c[2], c[1], c[0], c[4])

Negation(x) == R[QNeg[x.num], x.rad]

\* The base vertices lie in one plane.
BasePlanar(c) ==
  QSign[Dot[Side(c, 1, 0), Cross[Side(c, 2, 0), Side(c, 3, 0)]]] = 0

\* C6 as stated: reversing the base winding order with the apex fixed negates
\* v_pyramid_volume, for both writings of the reversed base (v0,v3,v2,v1 and
\* v3,v2,v1,v0) and also when the base is not planar.
C6_ReversalNegatesVolume ==
  call.fn = "volume" =>
    /\ REq[v_pyramid_volume(num_nodes, ReversedFromV0(coordinates)), Negation(call.ret)]
    /\ REq[v_pyramid_volume(num_nodes, ReversedFromV3(coordinates)), Negation(call.ret)]

\* C6 amended: the writing v0,v3,v2,v1 negates the volume for every input; the
\* writing v3,v2,v1,v0 negates it exactly when the base is planar.
C6_ReversalNegatesVolumeOnSameDiagonal ==
  call.fn = "volume" =>
    /\ REq[v_pyramid_volume(num_nodes, ReversedFromV0(coordinates)), Negation(call.ret)]
    /\ BasePlanar(coordinates) <=>
         REq[v_pyramid_volume(num_nodes, ReversedFromV3(coordinates)),
             Negation(call.ret)]

\* A base that is not planar, on an element of volume other than 0.
C6_Witness ==
  /\ call.fn = "volume"
  /\ ~BasePlanar(coordinates)
  /\ RSign[call.ret] # 0

\* Translations applied to all five vertices.
Translations ==
  {Pt(QInt(1), QInt(0), QInt(0)), Pt(QInt(-2), QInt(3), QInt(5)),
   Pt(InvSqrt2, Half, QInt(-1))}

Translated(c, t) == [i \in 0..4 |-> [k \in 0..2 |-> QAdd[c[i][k], t[k]]]]

\* The signed axis permutations of determinant +1: the 24 proper rotations
\* that map the integer lattice onto itself.
AxisPermutations ==
  {p \in [0..2 -> 0..2] : \A i, j \in 0..2 : i # j => p[i] # p[j]}

Parity(p) ==
  IF Cardinality({ij \in (0..2) \X (0..2) : ij[1] < ij[2] /\ p[ij[1]] > p[ij[2]]}) % 2 = 0
  THEN 1 ELSE -1

ProperRotations ==
  {r \in [perm : AxisPermutations, sign : [0..2 -> {-1, 1}]] :
     Parity(r.perm) * r.sign[0] * r.sign[1] * r.sign[2] = 1}

Rotated(c, r) ==
  [i \in 0..4 |-> [k \in 0..2 |-> QMul[QInt(r.sign[k]), c[i][r.perm[k]]]]]

\* C7: v_pyramid_volume is unchanged when the same translation is added to all
\* five vertices, and when the same proper rotation (a signed axis permutation
\* of determinant +1) is applied to all five vertices.
C7_VolumeInvariantUnderRigidMotion ==
  call.fn = "volume" =>
    /\ \A t \in Translations :
         REq[v_pyramid_volume(num_nodes, Translated(coordinates, t)), call.ret]
    /\ \A r \in ProperRotations :
         REq[v_pyramid_volume(num_nodes, Rotated(coordinates, r)), call.ret]

\* An element of negative volume whose vertices all change under the motions.
C7_Witness ==
  /\ call.fn = "volume"
  /\ RSign[call.ret] = -1
  /\ Cardinality(ProperRotations) = 24
  /\ \E r \in ProperRotations : Rotated(coordinates, r) # coordinates

\* The base lies in the plane z = 0.
BaseInPlaneZ0(c) == \A i \in 0..3 : c[i][2] = QZero

\* Twice the signed shoelace area of the base quadrilateral v0,v1,v2,v3.
TwiceShoelaceArea(c) ==
  LET term(i, j) == QSub[QMul[c[i][0], c[j][1]], QMul[c[j][0], c[i][1]]]
  IN  QAdd[QAdd[term(0, 1), term(1, 2)], QAdd[term(2, 3), term(3, 0)]]

\* The turn at base vertex i, seen from above: the sign of the z component
\* of (v_i - v_(i-1)) x (v_(i+1) - v_i).
Turn(c, i) ==
  QSign[Cross[Side(c, i, (i + 3) % 4), Side(c, (i + 1) % 4, i)].z]

BaseNotConvex(c) ==
  \E i, j \in 0..3 : Turn(c, i) = 1 /\ Turn(c, j) = -1

\* C8: for every base in the plane z = 0, convex or not, with the apex at
\* height h, v_pyramid_volume (the signed volumes of tet (v0,v1,v3,v4) and tet
\* (v2,v3,v1,v4) added) equals the signed shoelace area of the base times h / 3.
C8_PlanarBaseVolumeIsAreaTimesHeightOverThree ==
  call.fn = "volume" /\ BaseInPlaneZ0(coordinates) =>
    REq[call.ret,
        RQ(QDivInt[QMul[TwiceShoelaceArea(coordinates), coordinates[4][2]], 6])]

\* A base that is not convex, under an apex above it.
C8_Witness ==
  /\ call.fn = "volume"
  /\ BaseInPlaneZ0(coordinates)
  /\ BaseNotConvex(coordinates)
  /\ QSign[coordinates[4][2]] = 1
  /\ RSign[call.ret] = 1

\* The eight pyramid edges as vertex pairs: base edges, then lateral edges.
PyramidEdges ==
  {<<0, 1>>, <<1, 2>>, <<2, 3>>, <<3, 0>>, <<0, 4>>, <<1, 4>>, <<2, 4>>, <<3, 4>>}

\* C9: v_pyramid_scaled_jacobian returns exactly 0 whenever one of the eight
\* pyramid edges has zero length (its two vertices coincide), and then it
\* divides by no edge-length product.
C9_ZeroEdgeGivesZeroWithoutDivision ==
  (/\ call.fn = "scaled_jacobian"
   /\ \E edge \in PyramidEdges : coordinates[edge[1]] = coordinates[edge[2]])
  => (call.ret = RZero /\ call.divisors = << >>)

\* The apex moved onto base vertex 2: the lateral edge 2 -> 4 has no length.
C9_Witness ==
  /\ call.fn = "scaled_jacobian"
  /\ coordinates[2] = coordinates[4]
  /\ \A edge \in PyramidEdges \ {<<2, 4>>} :
       coordinates[edge[1]] # coordinates[edge[2]]
  /\ call.ret = RZero

\* The dot product of the centroid-to-apex offset with the base normal
\* (v1 - v0) x (v3 - v0).
ApexSide(c) ==
  QSign[Dot[VSub[VecOf(c[4]),
                 VDivInt[VAdd[VAdd[VAdd[VecOf(c[0]), VecOf(c[1])], VecOf(c[2])],
                              VecOf(c[3])], 4]],
            Cross[Side(c, 1, 0), Side(c, 3, 0)]]]

\* C10: v_pyramid_shape returns exactly 0 when the apex lies in the base plane
\* (the dot product of the centroid-to-apex offset with the base normal is 0)
\* and when it lies on the side opposite to the base normal (the dot product is
\* negative), whatever the base-quad score is.
C10_ShapeZeroWhenApexNotAboveBase ==
  call.fn = "shape" /\ ApexSide(coordinates) <= 0 =>
    call.ret = RZero

\* The apex below a base that is not degenerate and scores 1.
C10_Witness ==
  /\ call.fn = "shape"
  /\ ApexSide(coordinates) = -1
  /\ ~QuadDegenerate[v_make_pyramid_faces(coordinates).base]
  /\ call.quad_score = ROne
  /\ call.ret = RZero

\* The squared length of pyramid edge e, taken from the two vertices it joins.
SquaredEdge(c, e) == length_squared[Side(c, e[2], e[1])]

\* C11: for every input, v_largest_pyramid_edge returns the maximum of the
\* eight edge lengths (its square is the maximum of the eight squared edge
\* lengths), also when base edge 0 -> 1 or 1 -> 2 is the longest edge.
C11_LargestEdgeIsMaximum ==
  call.fn = "largest_edge" =>
    /\ \A e \in PyramidEdges :
         ~RLess[RMul[call.ret, call.ret], RQ(SquaredEdge(coordinates, e))]
    /\ \E e \in PyramidEdges :
         REq[RMul[call.ret, call.ret], RQ(SquaredEdge(coordinates, e))]

\* The four corners of the scaled Jacobian as C13 lists them: the tetrahedron
\* (four vertex indices, in order), the pyramid vertex where the normalizing
\* edges meet, and the three normalizing edges as vertex pairs.
Corners ==
  {[tet |-> <<0, 1, 2, 4>>, at |-> 1, edges |-> <<(<<0, 1>>), (<<1, 2>>), (<<1, 4>>)>>],
   [tet |-> <<0, 2, 3, 4>>, at |-> 3, edges |-> <<(<<2, 3>>), (<<3, 0>>), (<<3, 4>>)>>],
   [tet |-> <<0, 1, 3, 4>>, at |-> 0, edges |-> <<(<<0, 1>>), (<<3, 0>>), (<<0, 4>>)>>],
   [tet |-> <<1, 2, 3, 4>>, at |-> 2, edges |-> <<(<<1, 2>>), (<<2, 3>>), (<<2, 4>>)>>]}

\* The scalar triple product (p3 - p0) . ((p1 - p0) x (p2 - p0)) of a corner's
\* tetrahedron.
TripleProduct(c, tet) ==
  RQ(Dot[Side(c, tet[4], tet[1]), Cross[Side(c, tet[2], tet[1]), Side(c, tet[3], tet[1])]])

EdgeLength(c, e) == sqrt[SquaredEdge(c, e)]

\* j / (la lb lc sqrt(2)/2) for one corner.
CornerRatio(c, corner) ==
  RDiv[TripleProduct(c, corner.tet),
       RMul[RMul[RMul[EdgeLength(c, corner.edges[1]), EdgeLength(c, corner.edges[2])],
                 EdgeLength(c, corner.edges[3])],
            RDiv[sqrt[QInt(2)], RQ(QInt(2))]]]

NoZeroEdge(c) == \A e \in PyramidEdges : c[e[1]] # c[e[2]]

\* C13: when none of the eight edges is degenerate, v_pyramid_scaled_jacobian
\* returns the minimum of the four ratios j_i / (la lb lc sqrt(2)/2) over the
\* tetrahedra tet1..tet4, and the three normalizing edges of each ratio are
\* pyramid edges that meet at one vertex of its tetrahedron.
C13_ScaledJacobianIsMinimumCornerRatio ==
  call.fn = "scaled_jacobian" /\ NoZeroEdge(coordinates) =>
    /\ \A corner \in Corners : RLeq[call.ret, CornerRatio(coordinates, corner)]
    /\ \E corner \in Corners : REq[call.ret, CornerRatio(coordinates, corner)]
    /\ \A corner \in Corners :
         /\ \E n \in 1..4 : corner.tet[n] = corner.at
         /\ \A n \in 1..3 :
              /\ corner.edges[n] \in PyramidEdges
              /\ corner.at \in {corner.edges[n][1], corner.edges[n][2]}
              /\ \A k \in 1..2 : \E m \in 1..4 : corner.tet[m] = corner.edges[n][k]

\* An element without a degenerate edge whose four ratios are not all equal
\* and whose worst corner is inverted.
C13_Witness ==
  /\ call.fn = "scaled_jacobian"
  /\ NoZeroEdge(coordinates)
  /\ Len(call.divisors) = 4
  /\ RSign[call.ret] = -1
  /\ \E corner \in Corners : RLess[call.ret, CornerRatio(coordinates, corner)]

\* The Jacobians of tet3 = (v0,v1,v3,v4) and tet4 = (v1,v2,v3,v4), added.
SumOfJ3AndJ4(c) ==
  R[QAdd[TripleProduct(c, <<0, 1, 3, 4>>).num, TripleProduct(c, <<1, 2, 3, 4>>).num],
    QOne]

Times(n, x) == RMul[RQ(QInt(n)), x]

\* C15: for every 5-vertex input, 6 x v_pyramid_volume equals the sum of the
\* Jacobians of tet3 and tet4; hence v_pyramid_jacobian <= 3 x v_pyramid_volume,
\* and a volume that is not positive goes with a Jacobian that is not positive.
C15_SixVolumesIsJ3PlusJ4 ==
  /\ call.fn = "volume" /\ num_nodes = 5 =>
       /\ REq[Times(6, call.ret), SumOfJ3AndJ4(coordinates)]
       /\ REq[Times(6, call.ret),
              R[QAdd[TetJacobians(coordinates)[3].num, TetJacobians(coordinates)[4].num],
                QOne]]
       /\ RLeq[v_pyramid_jacobian(num_nodes, coordinates), Times(3, call.ret)]
       /\ RSign[call.ret] <= 0 => RSign[v_pyramid_jacobian(num_nodes, coordinates)] <= 0
  /\ call.fn = "jacobian" /\ num_nodes = 5 =>
       /\ RLeq[call.ret, Times(3, v_pyramid_volume(num_nodes, coordinates))]
       /\ RSign[v_pyramid_volume(num_nodes, coordinates)] <= 0 => RSign[call.ret] <= 0

\* An element of positive volume with an inverted corner: the Jacobian is
\* negative, strictly below 3 x volume.
C15_Witness ==
  /\ call.fn = "jacobian"
  /\ num_nodes = 5
  /\ RSign[v_pyramid_volume(num_nodes, coordinates)] = 1
  /\ RSign[call.ret] = -1

\* x lies in (0, 1]: positive, not above 1 (so neither NaN nor infinite).
InUnitIntervalOpenAtZero(x) == RLess[RZero, x] /\ RLeq[x, ROne]

\* The aspect-ratio penalty min(distance, reference) / max(distance, reference).
AspectPenalty(distance, reference) ==
  IF RLess[distance, reference] THEN RDiv[distance, reference]
  ELSE RDiv[reference, distance]

\* The call went past both short-circuits of v_pyramid_shape: it divided three
\* times (by the normal length, the apex-offset length and in the penalty).
PastShortCircuits == call.fn = "shape" /\ Len(call.divisors) = 3

\* C14: for every input on which the base-quad primitive returns a score in
\* [0,1], v_pyramid_shape returns a value in [0,1], never an undefined one: it
\* returns 0 at a short-circuit, and past the two short-circuits the product of
\* the score, the cosine of the apex angle, which is in (0,1], and the
\* aspect-ratio penalty, which is in (0,1]; no length used as a divisor is 0.
C14_ShapeInUnitInterval ==
  call.fn = "shape" /\ RLeq[RZero, call.quad_score] /\ RLeq[call.quad_score, ROne] =>
    /\ IsFinite[call.ret]
    /\ RLeq[RZero, call.ret]
    /\ ~PastShortCircuits => call.ret = RZero
    /\ PastShortCircuits =>
         /\ call.ret =
              RMul[RMul[call.quad_score,
                        v_distance_point_to_pyramid_base(num_nodes, coordinates).cos_angle],
                   AspectPenalty(
                     v_distance_point_to_pyramid_base(num_nodes, coordinates).distance,
                     RMul[v_largest_pyramid_edge(coordinates), Sqrt2Halves])]
         /\ InUnitIntervalOpenAtZero(
              v_distance_point_to_pyramid_base(num_nodes, coordinates).cos_angle)
         /\ InUnitIntervalOpenAtZero(
              AspectPenalty(
                v_distance_point_to_pyramid_base(num_nodes, coordinates).distance,
                RMul[v_largest_pyramid_edge(coordinates), Sqrt2Halves]))
         /\ \A n \in 1..3 : IsFinite[call.divisors[n]] /\ RSign[call.divisors[n]] = 1
         /\ call.divisors[1] =
              length[Cross[Side(coordinates, 1, 0), Side(coordinates, 3, 0)]]

\* A call past both short-circuits on a base that scores 1, returning a value
\* above 0 with a cosine below 1.
C14_Witness ==
  /\ PastShortCircuits
  /\ call.quad_score = ROne
  /\ RLess[RZero, call.ret]
  /\ RLess[v_distance_point_to_pyramid_base(num_nodes, coordinates).cos_angle, ROne]

\* What the call of worker w returns when it runs alone.
AloneReturn(w) ==
  IF workers[w].fn = "volume" THEN v_pyramid_volume(num_nodes, workers[w].coordinates)
  ELSE IF workers[w].fn = "jacobian"
  THEN v_pyramid_jacobian(num_nodes, workers[w].coordinates)
  ELSE IF workers[w].fn = "scaled_jacobian"
  THEN v_pyramid_scaled_jacobian(num_nodes, workers[w].coordinates)
  ELSE IF workers[w].fn = "shape"
  THEN v_pyramid_shape(num_nodes, workers[w].coordinates, workers[w].quad_score)
  ELSE RZero

\* The record the v_pyramid_quality call of worker w leaves when it runs alone.
AloneRecord(w) ==
  v_pyramid_quality(num_nodes, workers[w].coordinates, workers[w].flag, ZeroVals,
                    workers[w].quad_score)

\* Every finished call has the result it has when run alone.
SameResultAsAlone ==
  \A w \in Workers :
    workers[w].pc = "done" =>
      /\ workers[w].ret = AloneReturn(w)
      /\ workers[w].fn = "quality" => workers[w].metric_vals = AloneRecord(w)

\* No call has read or written a variable that outlives it, other than its own
\* vertex array and result record.
NoSharedVariableTouched ==
  \A w \in Workers : workers[w].shared = {}

\* C12: metric calls share no state: in any interleaving of concurrent calls of
\* the four metric functions and of v_pyramid_quality by independent workers,
\* every call has the result it has when run alone, and no call reads or writes
\* a variable that outlives the call other than its own input array and result
\* record (the function-local static of v_pyramid_shape included).
C12_CallsShareNoState ==
  SameResultAsAlone /\ NoSharedVariableTouched

====
